---- MODULE Spec2Model ----
(***************************************************************************)
(* A model of the environmental monitoring dashboard streamlit_app.py:     *)
(* the session state, the three cached fetchers (sensor API, weather API,  *)
(* LLM chat API), the page evaluation main() and the normalisation of the  *)
(* sensor records into the table behind the metric cards and the chart.    *)
(***************************************************************************)
EXTENDS Integers, Sequences, FiniteSets, TLC

VARIABLES
    logged_in,          \* st.session_state.logged_in
    device_id,          \* st.session_state.device_id
    nidopro_api_key,    \* st.session_state.nidopro_api_key
    api_requests,       \* st.session_state.api_requests
    selected_language,  \* st.session_state.selected_language
    profile_updated,    \* st.session_state.profile_updated
    device_profiles,    \* st.session_state.device_profiles
    query_params,       \* st.query_params of the browser tab
    sensor_cache,       \* st.cache_data store of get_sensor_data
    weather_cache,      \* st.cache_data store of get_weather_forecast
    analysis_cache,     \* st.cache_data store of analyze_data_deepseek
    last_get,           \* the sensor API's log: per request, when it last answered and what the call returned
    now,                \* wall clock, in seconds
    rerun,              \* st.rerun() was called: the script runs again at once
    run,                \* what the latest script run did (requests, messages, buttons)
    sensor_data,        \* main's local sensor_data of the latest run
    from_date,          \* main's local from_date of the latest run, in days
    df,                 \* main's local df after sort_values
    cards,              \* the four metric card texts
    chart,              \* melted_df handed to the line chart
    fault               \* exception that left main unhandled, or "none"

vars == <<logged_in, device_id, nidopro_api_key, api_requests, selected_language,
          profile_updated, device_profiles, query_params, sensor_cache,
          weather_cache, analysis_cache, last_get, now, rerun, run, sensor_data,
          from_date, df, cards, chart, fault>>

session == <<logged_in, device_id, nidopro_api_key, api_requests,
             selected_language, profile_updated, device_profiles, query_params>>

caches == <<sensor_cache, weather_cache, analysis_cache, last_get>>

page == <<sensor_data, from_date, df, cards, chart, fault>>

----------------------------------------------------------------------------
(* Values of the JSON records and of the table cells.  Every value has the *)
(* same shape so that values of different Python types can be compared.    *)

\* A JSON number, kept in hundredths (120 is 1.20).
Num(n) == [t |-> "num", n |-> n, s |-> ""]

\* A Python str.
Str(s) == [t |-> "str", n |-> 0, s |-> s]

\* An ISO-8601 text naming minute m since the epoch.
Iso(m) == [t |-> "iso", n |-> m, s |-> ""]

\* A pandas Timestamp at minute m since the epoch.
Datetime(m) == [t |-> "datetime", n |-> m, s |-> ""]

\* float("nan"): what pandas puts in a cell whose record lacks the column.
NaN == [t |-> "nan", n |-> 0, s |-> ""]

\* pandas' missing Timestamp.
NaT == [t |-> "nat", n |-> 0, s |-> ""]

\* The four metrics of the cards and of the chart.
metrics == <<"EC", "pH", "airTemp", "airHum">>

MetricNames == {metrics[i] : i \in 1..Len(metrics)}

----------------------------------------------------------------------------
(* format_metric                                                           *)

Digit(d) == CASE d = 0 -> "0" [] d = 1 -> "1" [] d = 2 -> "2" [] d = 3 -> "3"
              [] d = 4 -> "4" [] d = 5 -> "5" [] d = 6 -> "6" [] d = 7 -> "7"
              [] d = 8 -> "8" [] d = 9 -> "9"

RECURSIVE IntText(_)
IntText(n) == IF n < 10 THEN Digit(n) ELSE IntText(n \div 10) \o Digit(n % 10)

\* float(value): a float, or the exception float() raises.
PyFloat(value) ==
    CASE value.t = "num" -> [exc |-> "none", f |-> value]
      [] value.t = "nan" -> [exc |-> "none", f |-> NaN]
      [] value.t = "str" -> [exc |-> "ValueError", f |-> NaN]
      [] OTHER -> [exc |-> "TypeError", f |-> NaN]

\* f"{x:.2f}" of a float.
Format2f(x) ==
    IF x.t = "nan" THEN "nan"
    ELSE IntText(x.n \div 100) \o "." \o Digit((x.n % 100) \div 10) \o Digit(x.n % 10)

format_metric(value) ==
    LET r == PyFloat(value)
    IN  IF r.exc \in {"ValueError", "TypeError"} THEN "N/A" ELSE Format2f(r.f)

----------------------------------------------------------------------------
(* The table: pd.DataFrame(sensor_data), the timestamp column, the sort.   *)

\* pd.DataFrame(records): the columns are the keys of all records, a cell
\* of a record that lacks the column is NaN; idx is the row's index label.
DataFrame(records) ==
    LET cols == UNION {DOMAIN records[i] : i \in 1..Len(records)}
    IN  [columns |-> cols,
         rows |-> [i \in 1..Len(records) |->
                     [idx |-> i - 1,
                      cells |-> [c \in cols |-> IF c \in DOMAIN records[i]
                                                THEN records[i][c] ELSE NaN]]]]

\* df.empty
Empty(d) == Len(d.rows) = 0 \/ d.columns = {}

\* pd.to_datetime of one cell.
ToDatetime(v) ==
    CASE v.t = "iso" -> Datetime(v.n)
      [] v.t = "datetime" -> v
      [] v.t = "nan" -> NaT
      [] OTHER -> [t |-> "raise", n |-> 0, s |-> "ValueError"]

\* df[col] = values: the column is added (or replaced), row by row.
SetColumn(d, col, values) ==
    [columns |-> d.columns \cup {col},
     rows |-> [i \in 1..Len(d.rows) |->
                 [idx |-> d.rows[i].idx,
                  cells |-> [c \in d.columns \cup {col} |->
                               IF c = col THEN values[i] ELSE d.rows[i].cells[c]]]]]

\* pd.date_range(start=from, periods=n, freq="min"): midnight of the day
\* `from`, then one minute more per position.
DateRange(from, n) == [i \in 1..n |-> Datetime(from * 1440 + (i - 1))]

\* A mutant of the timestamp handling: the generated range starts one
\* period late.
WithTimestampLate(d, from) ==
    SetColumn(d, "timestamp", [i \in 1..Len(d.rows) |-> Datetime(from * 1440 + i)])

\* Lines 349-355: parse "timestamp", else parse "time", else generate.
WithTimestamp(d, from) ==
    IF "timestamp" \in d.columns
    THEN SetColumn(d, "timestamp",
                   [i \in 1..Len(d.rows) |-> ToDatetime(d.rows[i].cells["timestamp"])])
    ELSE IF "time" \in d.columns
    THEN SetColumn(d, "timestamp",
                   [i \in 1..Len(d.rows) |-> ToDatetime(d.rows[i].cells["time"])])
    ELSE SetColumn(d, "timestamp", DateRange(from, Len(d.rows)))

\* Whether pd.to_datetime raised on some cell.
TimestampRaised(d) ==
    \E i \in 1..Len(d.rows) : d.rows[i].cells["timestamp"].t = "raise"

Orders(n) == {p \in [1..n -> 1..n] : \A i, j \in 1..n : i # j => p[i] # p[j]}

\* The orders df.sort_values(by="timestamp") may return.  Its default
\* kind is "quicksort", which is not stable: rows come out ascending, rows
\* with equal timestamps in any order; NaT rows are put last, in their
\* original order.
SortOrders(rows) ==
    LET n == Len(rows)
        ts(i) == rows[i].cells["timestamp"]
    IN  {p \in Orders(n) :
            \A a, b \in 1..n : a < b =>
                /\ ts(p[a]).t = "nat" => ts(p[b]).t = "nat"
                /\ (ts(p[a]).t # "nat" /\ ts(p[b]).t # "nat") => ts(p[a]).n <= ts(p[b]).n
                /\ (ts(p[a]).t = "nat" /\ ts(p[b]).t = "nat") => p[a] < p[b]}

\* df.sort_values(by="timestamp") with the order the sort produced.
sort_values(d, p) == [columns |-> d.columns, rows |-> [i \in 1..Len(d.rows) |-> d.rows[p[i]]]]

\* latest_data.get(m, 'N/A') on df.iloc[-1].
SeriesGet(row, m, default) == IF m \in DOMAIN row.cells THEN row.cells[m] ELSE default

\* Lines 361-370: the four card texts of the latest row.
MetricCards(d) ==
    LET latest_data == d.rows[Len(d.rows)]
    IN  [m \in MetricNames |-> format_metric(SeriesGet(latest_data, m, Str("N/A")))]

\* Lines 382-385: df[["timestamp"] + selected_metrics] and its melt, or
\* the KeyError of a selected column the table does not have.
RECURSIVE Melt(_, _)
Melt(d, selected) ==
    IF selected = <<>> THEN <<>>
    ELSE [i \in 1..Len(d.rows) |->
            [timestamp |-> d.rows[i].cells["timestamp"],
             Metric |-> Head(selected),
             Value |-> d.rows[i].cells[Head(selected)]]]
         \o Melt(d, Tail(selected))

ChartFault(d, selected) ==
    IF selected # <<>> /\ \E i \in 1..Len(selected) : selected[i] \notin d.columns
    THEN "KeyError" ELSE "none"

\* Lines 345-421 of main for one value of sensor_data: the table, the
\* cards, the chart and the exception that ends the run, if any.  p is the
\* order the sort produced, selected the multiselect's value.
Blank == [df |-> [columns |-> {}, rows |-> <<>>], cards |-> <<>>, chart |-> <<>>,
          fault |-> "none", rendered |-> FALSE]

Timestamped(data, from) == WithTimestamp(DataFrame(data), from)

RenderOrders(data, from) ==
    IF data = <<>> \/ Empty(DataFrame(data)) \/ TimestampRaised(Timestamped(data, from))
    THEN {<<>>}
    ELSE SortOrders(Timestamped(data, from).rows)

Render(data, from, p, selected) ==
    IF data = <<>> \/ Empty(DataFrame(data)) THEN Blank
    ELSE IF TimestampRaised(Timestamped(data, from))
    THEN [Blank EXCEPT !.df = Timestamped(data, from), !.fault = "ValueError"]
    ELSE LET sorted == sort_values(Timestamped(data, from), p)
         IN  [df |-> sorted,
              cards |-> MetricCards(sorted),
              chart |-> IF ChartFault(sorted, selected) = "none"
                        THEN Melt(sorted, selected) ELSE <<>>,
              fault |-> ChartFault(sorted, selected),
              rendered |-> ChartFault(sorted, selected) = "none"]

----------------------------------------------------------------------------
(* The records the sensor API may return.                                  *)

\* Longest record list of the normalisation runs.
MaxLen == 2

\* What a record may carry as its time: nothing, a "timestamp" field at
\* minute 0 or 1, or a "time" field.
Stamps == {<<>>, <<"timestamp", Iso(0)>>, <<"timestamp", Iso(1)>>, <<"time", Iso(0)>>}

\* What a record may carry as EC: nothing, a number, a text that is no number.
ECValues == {<<>>, <<Num(120)>>, <<Str("abc")>>}

\* The record with the given optional fields.
Record(stamp, ec, ph, at, ah) ==
    LET present == (IF stamp = <<>> THEN {} ELSE {stamp[1]})
                   \cup (IF ec = <<>> THEN {} ELSE {"EC"})
                   \cup (IF ph = <<>> THEN {} ELSE {"pH"})
                   \cup (IF at = <<>> THEN {} ELSE {"airTemp"})
                   \cup (IF ah = <<>> THEN {} ELSE {"airHum"})
    IN  [k \in present |->
            CASE k = "EC" -> ec[1]
              [] k = "pH" -> ph[1]
              [] k = "airTemp" -> at[1]
              [] k = "airHum" -> ah[1]
              [] OTHER -> stamp[2]]

\* The records: with or without a time, a record has pH, airTemp and airHum
\* and any of the EC values, or it has no metric at all.
Records ==
    {Record(st, ec, <<Num(650)>>, <<Num(2910)>>, <<Num(7000)>>) :
        st \in Stamps, ec \in ECValues}
    \cup {Record(st, <<>>, <<>>, <<>>, <<>>) : st \in Stamps}

RecordLists == UNION {[1..n -> Records] : n \in 1..MaxLen}

\* Values of the "Select Metrics to Plot" multiselect.
Selections == {metrics, <<"pH">>, <<>>}

----------------------------------------------------------------------------
(* The three services and the cached functions that call them.             *)

\* ttl of the three st.cache_data decorators, in seconds.
TTL == 300

WEATHER_API_KEY == "owm-key"

\* An optional value: <<>> is None / absent, <<x>> is x.
None == <<>>

Some(x) == <<x>>

\* Response bodies.  json is "invalid" for a body that is not JSON, "array"
\* for JSON that is not an object; data, detail and content are the
\* optional fields "data", errors[0].detail and choices[0].message.content.
Body(json, data, detail, content) ==
    [json |-> json, data |-> data, detail |-> detail, content |-> content]

NoBody == Body("invalid", None, None, None)

\* What requests.get / requests.post gives: a response, or an exception.
Response(status, body) == [exc |-> "none", status |-> status, body |-> body]

Failure(exc) == [exc |-> exc, status |-> 0, body |-> NoBody]

SampleA == Record(<<>>, <<Num(120)>>, <<Num(650)>>, <<Num(2910)>>, <<Num(7000)>>)

SampleB == Record(<<>>, <<>>, <<Num(655)>>, <<Num(3000)>>, <<Num(6500)>>)

\* The "data" arrays of the session runs.
DataLists == {<<>>, <<SampleA>>, <<SampleB>>}

SensorResponses ==
    {Response(200, Body("object", Some(d), None, None)) : d \in DataLists}
    \cup {Response(200, Body("object", None, None, None)),
          Response(200, Body("array", None, None, None)),
          Response(200, NoBody),
          Response(204, NoBody),
          Response(401, Body("object", None, Some("Invalid API Key supplied"), None)),
          Response(401, Body("object", None, None, None)),
          Response(500, NoBody),
          Failure("ConnectionError")}

WeatherResponses ==
    {Response(200, Body("object", None, None, Some("light rain"))),
     Response(404, Body("object", None, None, None)),
     Response(500, NoBody),
     Failure("ConnectionError")}

LLMResponses ==
    {Response(200, Body("object", None, None, Some("Lower the EC."))),
     Response(200, Body("object", None, None, None)),
     Response(500, NoBody),
     Failure("Timeout")}

\* A surfaced st.error: which text form it has and what it embeds.
Message(form, status, text) == [form |-> form, status |-> status, text |-> text]

\* response.text, as far as the messages need it.
Text(body) == IF body.detail # None THEN body.detail[1] ELSE ""

\* response.json().get("data", []) or the exception it raises.
JsonGetData(body) ==
    CASE body.json = "invalid" -> [exc |-> "JSONDecodeError", data |-> <<>>]
      [] body.json = "array" -> [exc |-> "AttributeError", data |-> <<>>]
      [] OTHER -> [exc |-> "none",
                   data |-> IF body.data = None THEN <<>> ELSE body.data[1]]

\* The try block of get_sensor_data (lines 101-108): what it returns or
\* raises, the message it surfaces and whether it counted the request.
SensorTry(resp) ==
    IF resp.exc # "none"
    THEN [exc |-> resp.exc, ret |-> <<>>, msg |-> None, counted |-> 0]
    ELSE IF resp.status = 200
    THEN [exc |-> JsonGetData(resp.body).exc, ret |-> JsonGetData(resp.body).data,
          msg |-> None, counted |-> 1]
    ELSE [exc |-> "none", ret |-> <<>>,
          msg |-> Some(Message("status and body", resp.status, Text(resp.body))),
          counted |-> 0]

\* A mutant of get_sensor_data: only the transport's exceptions are caught.
get_sensor_data_narrow(resp) ==
    LET r == SensorTry(resp)
    IN  IF r.exc \in {"ConnectionError", "Timeout"}
        THEN [r EXCEPT !.exc = "none", !.ret = <<>>,
                       !.msg = Some(Message("exception", 0, r.exc))]
        ELSE r

\* A mutant of get_sensor_data: the request is counted before the status
\* is looked at.
get_sensor_data_counting(resp) ==
    LET r == SensorTry(resp)
    IN  IF r.exc # "none"
        THEN [r EXCEPT !.exc = "none", !.ret = <<>>,
                       !.msg = Some(Message("exception", 0, r.exc))]
        ELSE [r EXCEPT !.counted = IF resp.exc = "none" THEN 1 ELSE 0]

\* The body of get_sensor_data for one response (lines 100-111): except
\* Exception catches whatever the try block raised.
get_sensor_data(resp) ==
    LET r == SensorTry(resp)
    IN  IF r.exc # "none"
        THEN [r EXCEPT !.exc = "none", !.ret = <<>>,
                       !.msg = Some(Message("exception", 0, r.exc))]
        ELSE r

\* The body of get_weather_forecast for one response (lines 202-216).
get_weather_forecast(resp) ==
    IF resp.exc # "none"
    THEN [exc |-> "none", ret |-> None,
          msg |-> Some(Message("exception", 0, resp.exc)), counted |-> 0]
    ELSE IF resp.status = 200
    THEN [exc |-> "none", ret |-> resp.body.content, msg |-> None, counted |-> 1]
    ELSE IF resp.status = 404
    THEN [exc |-> "none", ret |-> None,
          msg |-> Some(Message("location not found", 404, "")), counted |-> 0]
    ELSE [exc |-> "none", ret |-> None,
          msg |-> Some(Message("status and body", resp.status, Text(resp.body))),
          counted |-> 0]

\* Lines 182-193 of analyze_data_deepseek for one response: the reply's
\* text, or None; a 200 body without choices raises inside the try block.
analyze_data_deepseek(resp) ==
    IF resp.exc # "none"
    THEN [exc |-> "none", ret |-> None,
          msg |-> Some(Message("exception", 0, resp.exc)), counted |-> 0]
    ELSE IF resp.status = 200
    THEN IF resp.body.content = None
         THEN [exc |-> "none", ret |-> None,
               msg |-> Some(Message("exception", 0, "KeyError")), counted |-> 1]
         ELSE [exc |-> "none", ret |-> resp.body.content, msg |-> None, counted |-> 1]
    ELSE [exc |-> "none", ret |-> None,
          msg |-> Some(Message("status and body", resp.status, Text(resp.body))),
          counted |-> 0]

----------------------------------------------------------------------------
(* st.cache_data(ttl=300): one store per decorated function, keyed by the  *)
(* call's arguments; an entry is served while it is younger than the ttl.  *)

\* A mutant of Expired: an entry never expires.
ExpiredNever(entry, t) == FALSE

\* An entry stored ttl seconds ago or earlier is no longer served.
Expired(entry, t) == t - entry.stored >= TTL

Fresh(cache, key, t) == key \in DOMAIN cache /\ ~Expired(cache[key], t)

\* The store without its expired entries.
Live(cache, t) == [k \in {x \in DOMAIN cache : ~Expired(cache[x], t)} |-> cache[k]]

Store(cache, key, value, t) == (key :> [value |-> value, stored |-> t]) @@ cache

\* What one script run did: the button pressed, the requests sent (GETs to
\* the sensor API, GETs to the weather API, POSTs to the LLM API), the 200
\* and the 2xx responses received, the messages surfaced, the call of
\* get_sensor_data and the call of analyze_data_deepseek.
NoRun == [btn |-> "none", gets |-> 0, wgets |-> 0, posts |-> 0, n200 |-> 0,
          n2xx |-> 0, messages |-> {}, sensor |-> None, analysis |-> None]

\* The run after a response arrived.
Received(r, resp) ==
    [r EXCEPT !.n200 = @ + (IF resp.exc = "none" /\ resp.status = 200 THEN 1 ELSE 0),
              !.n2xx = @ + (IF resp.exc = "none" /\ resp.status \in 200..299
                            THEN 1 ELSE 0)]

Surfaced(r, msg) == [r EXCEPT !.messages = @ \cup (IF msg = None THEN {} ELSE {msg[1]})]

\* A call of the cached get_sensor_data in world w at time t: the worlds
\* it may leave, each with the call's outcome.  A stored outcome is served
\* (its messages are replayed); otherwise the sensor API is asked, the
\* counter follows the function body and the outcome is stored, unless the
\* function raised.
CallSensor(w, key, t, responses) ==
    IF Fresh(w.sensor_cache, key, t)
    THEN {LET o == w.sensor_cache[key].value
          IN  [w |-> [w EXCEPT !.run = [Surfaced(@, o.msg) EXCEPT !.sensor =
                          Some([key |-> key, hit |-> TRUE, resp |-> Failure("none"),
                                out |-> o])]],
               out |-> o]}
    ELSE {LET o == get_sensor_data(resp)
          IN  [w |-> [w EXCEPT
                        !.api_requests = @ + o.counted,
                        !.sensor_cache = IF o.exc = "none" THEN Store(@, key, o, t) ELSE @,
                        !.last_get = (key :> [at |-> t, out |-> o]) @@ @,
                        !.run = [Surfaced(Received(@, resp), o.msg) EXCEPT
                                   !.gets = @ + 1,
                                   !.sensor = Some([key |-> key, hit |-> FALSE,
                                                    resp |-> resp, out |-> o])]],
               out |-> o]
          : resp \in responses}

\* A call of the cached get_weather_forecast.
CallWeather(w, key, t, responses) ==
    IF Fresh(w.weather_cache, key, t)
    THEN {LET o == w.weather_cache[key].value
          IN  [w |-> [w EXCEPT !.run = Surfaced(@, o.msg)], out |-> o]}
    ELSE {LET o == get_weather_forecast(resp)
          IN  [w |-> [w EXCEPT
                        !.api_requests = @ + o.counted,
                        !.weather_cache = Store(@, key, o, t),
                        !.run = [Surfaced(Received(@, resp), o.msg) EXCEPT
                                   !.wgets = @ + 1]],
               out |-> o]
          : resp \in responses}

\* A call of the cached analyze_data_deepseek(sensor_data, location,
\* language): on a miss it asks for the weather of the location (line 128,
\* itself cached), posts the prompt and stores what it returns, None
\* included.
CallAnalysis(w, key, t, weather, llm) ==
    IF Fresh(w.analysis_cache, key, t)
    THEN {LET o == w.analysis_cache[key].value
          IN  [w |-> [w EXCEPT !.run = [Surfaced(@, o.msg) EXCEPT !.analysis =
                          Some([key |-> key, hit |-> TRUE, ret |-> o.ret])]],
               out |-> o]}
    ELSE UNION {
           {LET o == analyze_data_deepseek(resp)
            IN  [w |-> [wx.w EXCEPT
                          !.api_requests = @ + o.counted,
                          !.analysis_cache = Store(@, key, o, t),
                          !.run = [Surfaced(Received(@, resp), o.msg) EXCEPT
                                     !.posts = @ + 1,
                                     !.analysis = Some([key |-> key, hit |-> FALSE,
                                                        ret |-> o.ret])]],
                 out |-> o]
            : resp \in llm}
           : wx \in CallWeather(w, <<WEATHER_API_KEY, key[2]>>, t, weather)}

----------------------------------------------------------------------------
(* The page evaluation.                                                    *)

\* Number of clock advances the runs span.
MaxTicks == 2

\* The clock advances by just under or just over the ttl.
TickSteps == {TTL - 1, TTL + 1}

DeviceIds == {"dev1"}

ApiKeys == {"key1"}

\* What the user may type into a text input.
Locations == {"", "Kuala Lumpur"}

language_options == <<"English", "Bahasa Malaysia">>

\* date_options (lines 265-270): days back from today.
date_options == [Today |-> 0, Yesterday |-> 1, Last7Days |-> 7, Last30Days |-> 30]

\* The options of the date selectbox the runs choose among.
DateChoices == {"Last7Days"}

\* The positions of the limit slider the runs choose among.
LimitChoices == {25, 1000}

\* The query string: a mapping from some of the three keys to texts.
Query(l, d, k) ==
    LET present == (IF l = None THEN {} ELSE {"logged_in"})
                   \cup (IF d = None THEN {} ELSE {"device_id"})
                   \cup (IF k = None THEN {} ELSE {"nidopro_api_key"})
    IN  [q \in present |-> CASE q = "logged_in" -> l[1]
                             [] q = "device_id" -> d[1]
                             [] OTHER -> k[1]]

QueryStrings ==
    {Query(l, d, k) : l \in {None, Some("True"), Some("False")},
                      d \in {None} \cup {Some(x) : x \in DeviceIds},
                      k \in {None} \cup {Some(x) : x \in ApiKeys}}

\* dict.get(key, default)
Get(dict, key, default) == IF key \in DOMAIN dict THEN dict[key] ELSE default

\* datetime.today().date(), in days.
Today(t) == t \div 86400

\* Lines 18-32: the session state of a new session.
InitSession ==
    /\ logged_in = FALSE
    /\ device_id = ""
    /\ nidopro_api_key = ""
    /\ api_requests = 0
    /\ selected_language = "English"
    /\ profile_updated = FALSE
    /\ device_profiles = <<>>
    /\ query_params = <<>>

BlankPage ==
    /\ sensor_data = <<>>
    /\ from_date = 0
    /\ df = Blank.df
    /\ cards = Blank.cards
    /\ chart = Blank.chart
    /\ fault = "none"

Init ==
    /\ InitSession
    /\ BlankPage
    /\ sensor_cache = <<>>
    /\ weather_cache = <<>>
    /\ analysis_cache = <<>>
    /\ last_get = <<>>
    /\ now = 0
    /\ rerun = FALSE
    /\ run = NoRun

\* Lines 224-228: the session after the query string was looked at.
QueryLogin ==
    IF "logged_in" \in DOMAIN query_params /\ query_params["logged_in"] = "True"
    THEN [logged_in |-> TRUE,
          device_id |-> Get(query_params, "device_id", ""),
          nidopro_api_key |-> Get(query_params, "nidopro_api_key", "")]
    ELSE [logged_in |-> logged_in, device_id |-> device_id,
          nidopro_api_key |-> nidopro_api_key]

\* The page of a run that returned before the sensor section.
NoPage ==
    /\ sensor_data' = <<>>
    /\ from_date' = 0
    /\ df' = Blank.df
    /\ cards' = Blank.cards
    /\ chart' = Blank.chart
    /\ fault' = "none"

\* Lines 231-249: a run of main that ends in the login section.  The
\* Login button with both fields filled logs in, writes the query string
\* and asks for a rerun.
MainLogin(btn, in_device, in_key) ==
    /\ ~QueryLogin.logged_in
    /\ btn \in {"none", "Login"}
    /\ rerun => btn = "none"
    /\ IF btn = "Login" /\ in_device # "" /\ in_key # ""
       THEN /\ logged_in' = TRUE
            /\ device_id' = in_device
            /\ nidopro_api_key' = in_key
            /\ query_params' = Query(Some("True"), Some(in_device), Some(in_key))
            /\ rerun' = TRUE
       ELSE /\ UNCHANGED <<logged_in, device_id, nidopro_api_key, query_params>>
            /\ rerun' = FALSE
    /\ run' = [NoRun EXCEPT !.btn = btn]
    /\ NoPage
    /\ UNCHANGED <<api_requests, selected_language, profile_updated, device_profiles,
                   caches, now>>

\* Lines 251-258: a run of main in which Logout was pressed.
MainLogout ==
    /\ QueryLogin.logged_in
    /\ ~rerun
    /\ logged_in' = FALSE
    /\ device_id' = ""
    /\ nidopro_api_key' = ""
    /\ query_params' = <<>>
    /\ rerun' = TRUE
    /\ run' = [NoRun EXCEPT !.btn = "Logout"]
    /\ NoPage
    /\ UNCHANGED <<api_requests, selected_language, profile_updated, device_profiles,
                   caches, now>>

\* Lines 297-304: the profile the Save Profile button stores.
UpdatedProfile(dev, exact_location) ==
    [DeviceID |-> dev, size_farm |-> "", type_of_plant |-> "", owner_name |-> "",
     exact_location |-> exact_location, telephone_number |-> ""]

\* Lines 320-321: the weather section calls get_weather_forecast when the
\* location field is filled.
WeatherSection(w, exact_location, t, responses) ==
    IF exact_location # ""
    THEN CallWeather(w, <<WEATHER_API_KEY, exact_location>>, t, responses)
    ELSE {[w |-> w, out |-> [exc |-> "none", ret |-> None, msg |-> None, counted |-> 0]]}

\* Lines 425-431: the Run Analysis button, reached when the page was
\* rendered down to it.
AnalysisSection(w, btn, page_out, location, language, t, weather, llm) ==
    IF btn = "Run Analysis" /\ page_out.rendered
    THEN CallAnalysis(w, <<page_out.df.rows[Len(page_out.df.rows)], location, language>>,
                      t, weather, llm)
    ELSE {[w |-> w, out |-> [exc |-> "none", ret |-> None, msg |-> None, counted |-> 0]]}

\* Lines 260-431: a run of main for a logged-in session in which Logout
\* was not pressed.  The widgets give the date option, the limit, the
\* language, the location field and the metrics to plot; btn is the button
\* pressed, if any.
MainPage(E, btn, date_option, limit, language, exact_location, selected) ==
    /\ QueryLogin.logged_in
    /\ btn \in {"none", "Save Profile", "Run Analysis"}
    /\ rerun => btn = "none"
    /\ LET dev == QueryLogin.device_id
           key == QueryLogin.nidopro_api_key
           today == Today(now)
           from == IF date_option # "Today" THEN today - date_options[date_option]
                   ELSE today
           profile == Get(device_profiles, dev, <<>>)
           profiles == IF btn = "Save Profile"
                       THEN (dev :> UpdatedProfile(dev, exact_location)) @@ device_profiles
                       ELSE device_profiles
           location == Get(profile, "exact_location", "Unknown Location")
           w0 == [api_requests |-> api_requests, sensor_cache |-> sensor_cache,
                  weather_cache |-> weather_cache, analysis_cache |-> analysis_cache,
                  last_get |-> last_get, run |-> [NoRun EXCEPT !.btn = btn]]
       IN  \E w1 \in WeatherSection(w0, exact_location, now, E.weather) :
           \E w2 \in CallSensor(w1.w, <<dev, key, from, today, limit>>, now, E.sensor) :
           \E p \in RenderOrders(w2.out.ret, from) :
           LET page_out == IF w2.out.exc = "none"
                           THEN Render(w2.out.ret, from, p, selected)
                           ELSE [Blank EXCEPT !.fault = w2.out.exc]
           IN  \E w3 \in AnalysisSection(w2.w, btn, page_out, location, language, now,
                                        E.weather, E.llm) :
               /\ logged_in' = TRUE
               /\ device_id' = dev
               /\ nidopro_api_key' = key
               /\ selected_language' = language
               /\ device_profiles' = profiles
               /\ profile_updated' = FALSE
               /\ api_requests' = w3.w.api_requests
               /\ sensor_cache' = w3.w.sensor_cache
               /\ weather_cache' = w3.w.weather_cache
               /\ analysis_cache' = w3.w.analysis_cache
               /\ last_get' = w3.w.last_get
               /\ run' = w3.w.run
               /\ sensor_data' = w2.out.ret
               /\ from_date' = from
               /\ df' = page_out.df
               /\ cards' = page_out.cards
               /\ chart' = page_out.chart
               /\ fault' = page_out.fault
    /\ rerun' = FALSE
    /\ UNCHANGED <<query_params, now>>

\* One run of the script: main() from its first line to its return, to
\* st.rerun() or to an unhandled exception.  E is the environment of the
\* run: the buttons and widget values the user chooses among and the
\* responses the three services may give.
Main(E) ==
    \/ \E btn \in {"none", "Login"}, d \in DeviceIds \cup {""}, k \in ApiKeys \cup {""} :
          MainLogin(btn, d, k)
    \/ MainLogout
    \/ \E btn \in E.buttons, opt \in E.dates, limit \in E.limits,
          language \in E.languages, loc \in E.locations, sel \in E.selections :
          MainPage(E, btn, opt, limit, language, loc, sel)

\* Time passes between two runs; the stores drop the entries that expire.
Tick ==
    /\ ~rerun
    /\ \E d \in TickSteps :
          /\ now + d <= MaxTicks * TTL
          /\ now' = now + d
          /\ sensor_cache' = Live(sensor_cache, now + d)
          /\ weather_cache' = Live(weather_cache, now + d)
          /\ analysis_cache' = Live(analysis_cache, now + d)
    /\ UNCHANGED <<session, last_get, rerun, run, page>>

\* The user opens the app's URL with a query string of their choosing: a
\* new session (lines 18-32) whose script runs at once.  The caches are
\* the server's and stay.
NewSession ==
    /\ ~rerun
    /\ \E q \in QueryStrings :
          /\ logged_in' = FALSE
          /\ device_id' = ""
          /\ nidopro_api_key' = ""
          /\ api_requests' = 0
          /\ selected_language' = "English"
          /\ profile_updated' = FALSE
          /\ device_profiles' = <<>>
          /\ query_params' = q
    /\ rerun' = TRUE
    /\ run' = [NoRun EXCEPT !.btn = "open"]
    /\ NoPage
    /\ UNCHANGED <<caches, now>>

----------------------------------------------------------------------------
(* The specifications: the same program in four bounded environments.      *)

LanguageOptions == {language_options[i] : i \in 1..Len(language_options)}

\* The session: login, logout, new sessions, the language, the profile.
SessionEnv ==
    [buttons |-> {"none", "Save Profile"}, dates |-> DateChoices, limits |-> {1000},
     languages |-> LanguageOptions, locations |-> Locations, selections |-> {metrics},
     sensor |-> {Response(200, Body("object", Some(<<SampleA>>), None, None)),
                 Response(500, NoBody)},
     weather |-> {Response(200, Body("object", None, None, Some("light rain")))},
     llm |-> LLMResponses]

Next == Main(SessionEnv) \/ NewSession

Spec == Init /\ [][Next]_vars

\* The sensor cache over time: the fetches of one device at two limits.
CacheEnv ==
    [buttons |-> {"none"}, dates |-> DateChoices, limits |-> LimitChoices,
     languages |-> {"English"}, locations |-> {""}, selections |-> {metrics},
     sensor |-> {Response(200, Body("object", Some(<<SampleA>>), None, None)),
                 Response(200, Body("object", Some(<<SampleB>>), None, None)),
                 Response(500, NoBody),
                 Failure("ConnectionError")},
     weather |-> WeatherResponses, llm |-> LLMResponses]

NextCache == Main(CacheEnv) \/ Tick

SpecCache == Init /\ [][NextCache]_vars

\* The analysis over time: the three services behind the Run Analysis
\* button, each with answers of every kind.
AnalysisEnv ==
    [buttons |-> {"none", "Run Analysis"}, dates |-> DateChoices, limits |-> {1000},
     languages |-> {"English"}, locations |-> {""}, selections |-> {metrics},
     sensor |-> {Response(200, Body("object", Some(<<SampleA>>), None, None)),
                 Response(204, NoBody)},
     weather |-> {Response(200, Body("object", None, None, Some("light rain"))),
                  Response(404, Body("object", None, None, None))},
     llm |-> {Response(200, Body("object", None, None, Some("Lower the EC."))),
              Response(500, NoBody),
              Failure("Timeout")}]

NextAnalysis == Main(AnalysisEnv) \/ Tick

SpecAnalysis == Init /\ [][NextAnalysis]_vars

\* One fetch against every kind of answer of the sensor API.
FetchEnv ==
    [buttons |-> {"none"}, dates |-> DateChoices, limits |-> {1000},
     languages |-> {"English"}, locations |-> {""}, selections |-> {metrics},
     sensor |-> SensorResponses, weather |-> WeatherResponses, llm |-> LLMResponses]

NextFetch == Main(FetchEnv) \/ Tick

SpecFetch == Init /\ [][NextFetch]_vars

\* The table, the cards and the chart of every record list.
NormEnv ==
    [buttons |-> {"none"}, dates |-> DateChoices, limits |-> {1000},
     languages |-> {"English"}, locations |-> {""}, selections |-> Selections,
     sensor |-> {Response(200, Body("object", Some(d), None, None)) : d \in RecordLists},
     weather |-> WeatherResponses, llm |-> LLMResponses]

NextNorm == Main(NormEnv)

SpecNorm == Init /\ [][NextNorm]_vars

----------------------------------------------------------------------------
(* Claims.                                                                 *)

\* A step that is a run of main in which get_sensor_data was called (the
\* clock stands still during a run; Tick is the only step that moves it).
SensorCallStep == now' = now /\ run'.sensor # None

\* C1: of the calls of get_sensor_data with one argument tuple (device_id,
\* api_key, from_date, to_date, limit), a call made less than 300 seconds
\* after the call that last went to the sensor API sends no GET and
\* returns that call's result; a call made more than 300 seconds after it,
\* or with arguments never fetched before, sends exactly one GET.
C1_CacheWindow ==
    [][SensorCallStep =>
          LET c == run'.sensor[1]
          IN  /\ (c.key \in DOMAIN last_get /\ now - last_get[c.key].at < TTL)
                    => /\ run'.gets = 0
                       /\ c.hit
                       /\ c.out = last_get[c.key].out
                       /\ sensor_data' = last_get[c.key].out.ret
                       /\ last_get' = last_get
              /\ (c.key \notin DOMAIN last_get \/ now - last_get[c.key].at > TTL)
                    => /\ run'.gets = 1
                       /\ ~c.hit
                       /\ last_get'[c.key].at = now]_vars

\* C1 witness: a call answered from the store 299 seconds after the GET
\* that filled it, with the result of that GET.
C1_Witness ==
    /\ run.sensor # None
    /\ run.sensor[1].hit
    /\ run.gets = 0
    /\ now - last_get[run.sensor[1].key].at = TTL - 1
    /\ sensor_data = last_get[run.sensor[1].key].out.ret
    /\ sensor_data # <<>>

\* C2 as stated: the counter goes up by one for every 2xx response
\* received in a run and is changed by nothing else.
C2_Every2xxCounted ==
    [][IF now' = now THEN api_requests' = api_requests + run'.n2xx
       ELSE api_requests' = api_requests]_vars

\* C2 amended: the counter goes up by one for every response with status
\* 200 received in a run (from the sensor, the weather or the LLM service)
\* and is changed by nothing else: another status, 2xx or not, a transport
\* exception and a call answered from the store leave it unchanged.
C2_Every200Counted ==
    [][IF now' = now THEN api_requests' = api_requests + run'.n200
       ELSE api_requests' = api_requests]_vars

\* C2 witness: a run whose sensor data came from the store and whose
\* analysis received two 200 responses (weather and LLM), both counted.
C2_Witness ==
    /\ run.sensor # None
    /\ run.sensor[1].hit
    /\ run.gets = 0
    /\ run.wgets = 1
    /\ run.posts = 1
    /\ run.n200 = 2
    /\ api_requests >= 3

\* The answers C3 is about: a status other than 200, a transport
\* exception, a 200 body that is not a JSON object or has no "data".
BadSensorAnswer(resp) ==
    \/ resp.exc # "none"
    \/ resp.status # 200
    \/ resp.body.json # "object"
    \/ resp.body.data = None

\* C3: get_sensor_data never raises, and returns an empty sequence for
\* every non-200 status, every transport exception and every 200 response
\* whose body is not a JSON object or has no "data" field.
C3_NeverRaises ==
    (run.sensor # None /\ ~run.sensor[1].hit) =>
        /\ run.sensor[1].out.exc = "none"
        /\ BadSensorAnswer(run.sensor[1].resp) =>
              (run.sensor[1].out.ret = <<>> /\ sensor_data = <<>>)

\* C3 witness: a 200 response whose body is JSON but not an object was
\* turned into an empty sequence and a message.
C3_Witness ==
    /\ run.sensor # None
    /\ ~run.sensor[1].hit
    /\ run.sensor[1].resp.status = 200
    /\ run.sensor[1].resp.body.json = "array"
    /\ run.sensor[1].out.ret = <<>>
    /\ Message("exception", 0, "AttributeError") \in run.messages
    /\ fault = "none"

\* C4 as stated: on a 401 the message surfaced is errors[0].detail when
\* the body carries one, else a generic invalid-key text, never the status
\* code with the raw body; and the call returns an empty sequence.
C4_DetailSurfaced ==
    (run.sensor # None /\ ~run.sensor[1].hit /\ run.sensor[1].resp.exc = "none"
       /\ run.sensor[1].resp.status = 401) =>
        /\ run.sensor[1].out.ret = <<>>
        /\ run.sensor[1].out.exc = "none"
        /\ \A m \in run.messages : m.form # "status and body"
        /\ IF run.sensor[1].resp.body.detail # None
           THEN Message("detail", 401, run.sensor[1].resp.body.detail[1]) \in run.messages
           ELSE Message("generic", 401, "Invalid API Key") \in run.messages

\* C5 as stated: when the latest analysis returned None, pressing Run
\* Analysis again for the same reading, location and language sends a new
\* POST, and no press sends more than one.
C5_RetryPosts ==
    [][(now' = now /\ run'.btn = "Run Analysis" /\ run'.analysis # None) =>
          /\ run'.posts <= 1
          /\ (run.analysis # None /\ run.analysis[1].ret = None
                /\ run'.analysis[1].key = run.analysis[1].key)
                => run'.posts = 1]_vars

\* The record of sensor_data behind the latest row of the table.
LatestRecord == sensor_data[df.rows[Len(df.rows)].idx + 1]

\* C6 as stated: the card of a metric the latest record lacks, or holds
\* as a text that is no number, reads "N/A".
C6_MissingIsNA ==
    cards # <<>> =>
        \A m \in MetricNames :
            (m \notin DOMAIN LatestRecord \/ LatestRecord[m].t # "num")
                => cards[m] = "N/A"

NoStampField(records) ==
    \A i \in 1..Len(records) :
        "timestamp" \notin DOMAIN records[i] /\ "time" \notin DOMAIN records[i]

\* The table has one row per record, in array order, the i-th (0-based)
\* at from_date + i minutes.
Synthesized ==
    /\ Len(df.rows) = Len(sensor_data)
    /\ \A i \in 1..Len(df.rows) :
          /\ df.rows[i].idx = i - 1
          /\ df.rows[i].cells["timestamp"] = Datetime(from_date * 1440 + (i - 1))
    /\ \A i, j \in 1..Len(df.rows) :
          i < j => df.rows[i].cells["timestamp"].n < df.rows[j].cells["timestamp"].n

\* C7 as stated: every non-empty record list without timestamp and time
\* fields is given the timestamps from_date + i minutes, in array order.
C7_AlwaysSynthesized ==
    (run.sensor # None /\ sensor_data # <<>> /\ NoStampField(sensor_data)) => Synthesized

\* C7 amended: every non-empty record list without timestamp and time
\* fields in which some record has at least one field is given the
\* timestamps from_date + i minutes, one per record, strictly increasing,
\* the first at from_date, and the sort keeps the array order.  (A list
\* whose records have no field at all makes an empty table, which is
\* reported as "No data available" and not normalised.)
C7_Synthesized ==
    (run.sensor # None /\ sensor_data # <<>> /\ NoStampField(sensor_data)
       /\ \E i \in 1..Len(sensor_data) : DOMAIN sensor_data[i] # {})
        => Synthesized

\* C7 witness: two records without time fields, the second at from_date
\* plus one minute.
C7_Witness ==
    /\ Len(sensor_data) = 2
    /\ NoStampField(sensor_data)
    /\ Len(df.rows) = 2
    /\ df.rows[1].cells["timestamp"] = Datetime(from_date * 1440)
    /\ df.rows[2].cells["timestamp"] = Datetime(from_date * 1440 + 1)
    /\ df.rows[2].idx = 1

\* C8 as stated: the table is ascending by timestamp and rows with equal
\* timestamps keep the order they had in the response.
C8_StableSort ==
    \A a, b \in 1..Len(df.rows) :
        a < b =>
            /\ (df.rows[a].cells["timestamp"].t = "datetime"
                  /\ df.rows[b].cells["timestamp"].t = "datetime")
                  => df.rows[a].cells["timestamp"].n <= df.rows[b].cells["timestamp"].n
            /\ df.rows[a].cells["timestamp"] = df.rows[b].cells["timestamp"]
                  => df.rows[a].idx < df.rows[b].idx

\* C9 as stated: after a run in which Logout was pressed the whole
\* session state is back to its initial value.
C9_LogoutWipes ==
    run.btn = "Logout" =>
        /\ ~logged_in
        /\ device_id = ""
        /\ nidopro_api_key = ""
        /\ selected_language = "English"
        /\ api_requests = 0
        /\ device_profiles = <<>>

\* C10 as stated: for every non-empty record list the run of main gets
\* through the table, the cards and the chart without an unhandled
\* exception.
C10_NoFault ==
    (run.sensor # None /\ sensor_data # <<>>) => fault = "none"

\* C11 as stated: in every reachable state a logged-in session has a
\* non-empty device id and a non-empty sensor API key, and no run of main
\* calls get_sensor_data with an empty device id or an empty API key.
C11_LoggedInHasCredentials ==
    /\ logged_in => (device_id # "" /\ nidopro_api_key # "")
    /\ run.sensor # None =>
          (run.sensor[1].key[1] # "" /\ run.sensor[1].key[2] # "")

====
